---- MODULE Spec2Model ----
(***************************************************************************)
(* gl_lib: ownership-safe handles over OpenGL shader and program objects.  *)
(*                                                                         *)
(* The driver is the record gl: its object table (shader and program names  *)
(* share one name space), its current-program binding and its error flag.  *)
(* Every gl::X call of the source is an operator glX on that record; the    *)
(* handlers of shader.rs and program.rs are compositions of these calls,    *)
(* in the order the source makes them.  The program runs on one thread, so  *)
(* each handler is one atomic action.                                       *)
(***************************************************************************)
EXTENDS Integers, Sequences, FiniteSets, TLC

\* ---------------------------------------------------------------- bounds
\* Names the driver can issue: 1..MaxName (0 is the driver's "no object").
MaxName == 4
\* Live shader handles / live Program values the caller keeps at a time.
MaxShaders == 3
MaxPrograms == 2

Names == 1..MaxName

\* ------------------------------------------------------- driver constants
NO_ERROR == "GL_NO_ERROR"
INVALID_VALUE == "GL_INVALID_VALUE"
INVALID_OPERATION == "GL_INVALID_OPERATION"
OUT_OF_MEMORY == "GL_OUT_OF_MEMORY"

\* ShaderType and its Display text (the five stages).
Stages ==
    { "VERTEX_SHADER", "TESS_CONTROL_SHADER", "TESS_EVALUATION_SHADER",
      "GEOMETRY_SHADER", "FRAGMENT_SHADER" }

\* Info logs a driver may hold for a rejected object, as bytes without the
\* terminating NUL: none, ASCII "hi", the two-byte UTF-8 of U+00E9, and a
\* byte that is no UTF-8.
DriverLogs == { <<>>, <<104, 105>>, <<195, 169>>, <<255>> }

\* What the driver makes of a source text: the compile status and the log.
Sources == { "valid", "bad_nolog", "bad_ascii", "bad_latin", "bad_bytes" }

CompileOutcome(source) ==
    CASE source = "valid" -> [ok |-> TRUE, log |-> <<>>]
      [] source = "bad_nolog" -> [ok |-> FALSE, log |-> <<>>]
      [] source = "bad_ascii" -> [ok |-> FALSE, log |-> <<104, 105>>]
      [] source = "bad_latin" -> [ok |-> FALSE, log |-> <<195, 169>>]
      [] OTHER -> [ok |-> FALSE, log |-> <<255>>]

\* ------------------------------------------------------------ driver state
NoObj == [kind |-> "none"]

IsShader(g, id) == id \in Names /\ g.objs[id].kind = "shader"
IsProgram(g, id) == id \in Names /\ g.objs[id].kind = "program"

\* Names of the driver objects that exist (deleted-when-unbound ones too).
Live(g) == { n \in Names : g.objs[n].kind # "none" }
FreeNames(g) == Names \ Live(g)

\* What a create call can return: the least unused name (a deleted name is
\* issued again), or 0 when the driver cannot create an object.  No operator
\* below orders or compares names otherwise, so another choice of unused
\* name gives the same behaviours up to renaming.
Issuable(g) ==
    {0} \cup { n \in FreeNames(g) : \A m \in FreeNames(g) : n <= m }

\* The programs a shader is attached to.
AttachedTo(g, s) == { p \in Names : IsProgram(g, p) /\ s \in g.objs[p].attached }

\* The flag records the first error since it was last read.
RaiseError(g, e) == IF g.err = NO_ERROR THEN [g EXCEPT !.err = e] ELSE g

\* glGetError: returns the flag and resets it.
glGetError(g) == [value |-> g.err, gl |-> [g EXCEPT !.err = NO_ERROR]]

\* ------------------------------------------------------------ shader calls
\* name is the driver's choice: an unused name, or 0 when it cannot create.
glCreateShader(g, stage, name) ==
    IF name = 0
    THEN [id |-> 0, gl |-> g]
    ELSE [id |-> name,
          gl |-> [g EXCEPT !.objs[name] =
                     [kind |-> "shader", stage |-> stage, source |-> "",
                      compiled |-> FALSE, log |-> <<>>, delPending |-> FALSE]]]

glShaderSource(g, id, source) ==
    IF IsShader(g, id) THEN [g EXCEPT !.objs[id].source = source]
    ELSE RaiseError(g, INVALID_VALUE)

\* fault: the driver runs out of memory while compiling (any command may
\* record GL_OUT_OF_MEMORY).
glCompileShader(g, id, fault) ==
    IF ~IsShader(g, id) THEN RaiseError(g, INVALID_VALUE)
    ELSE LET out == CompileOutcome(g.objs[id].source)
             g1 == [g EXCEPT !.objs[id].compiled = out.ok,
                             !.objs[id].log = out.log]
         IN  IF fault THEN RaiseError(g1, OUT_OF_MEMORY) ELSE g1

\* INFO_LOG_LENGTH: 0 without a log, else the length with the NUL.
InfoLogLength(log) == IF log = <<>> THEN 0 ELSE Len(log) + 1

glGetShaderiv(g, id, pname) ==
    IF ~IsShader(g, id) THEN [value |-> 0, gl |-> RaiseError(g, INVALID_VALUE)]
    ELSE [value |-> IF pname = "COMPILE_STATUS"
                    THEN (IF g.objs[id].compiled THEN 1 ELSE 0)
                    ELSE InfoLogLength(g.objs[id].log),
          gl |-> g]

\* Writes at most bufSize - 1 bytes of the log and a NUL into the buffer.
LogBytes(log, bufSize) ==
    IF bufSize <= 0 THEN <<>>
    ELSE SubSeq(log, 1, IF Len(log) < bufSize - 1 THEN Len(log) ELSE bufSize - 1)

glGetShaderInfoLog(g, id, bufSize) ==
    IF ~IsShader(g, id) \/ bufSize < 0
    THEN [written |-> <<>>, gl |-> RaiseError(g, INVALID_VALUE)]
    ELSE [written |-> LogBytes(g.objs[id].log, bufSize), gl |-> g]

\* A shader attached to a program is only flagged; 0 is silently ignored.
glDeleteShader(g, id) ==
    IF id = 0 THEN g
    ELSE IF IsShader(g, id)
         THEN IF AttachedTo(g, id) # {}
              THEN [g EXCEPT !.objs[id].delPending = TRUE]
              ELSE [g EXCEPT !.objs[id] = NoObj]
    ELSE IF IsProgram(g, id) THEN RaiseError(g, INVALID_OPERATION)
    ELSE RaiseError(g, INVALID_VALUE)

\* ------------------------------------------------------------- Vec<u8>
\* Vec::with_capacity(n): n bytes of spare room and no element.
VecWithCapacity(n) == [len |-> 0, cap |-> n, buf |-> <<>>]

\* The driver writes through as_mut_ptr(): the spare room changes, the
\* vector's length does not.
WriteRaw(v, bytes) == [v EXCEPT !.buf = bytes]

\* The elements of the vector: its first len bytes.
VecBytes(v) == SubSeq(v.buf, 1, v.len)

IsCont(b) == b \in 128..191

RECURSIVE Utf8Valid(_)
Utf8Valid(s) ==
    IF s = <<>> THEN TRUE
    ELSE LET b == Head(s)
             n == Len(s)
         IN  IF b < 128 THEN Utf8Valid(Tail(s))
             ELSE IF b \in 194..223
                  THEN n >= 2 /\ IsCont(s[2]) /\ Utf8Valid(SubSeq(s, 3, n))
             ELSE IF b \in 224..239
                  THEN /\ n >= 3 /\ IsCont(s[2]) /\ IsCont(s[3])
                       /\ (b = 224 => s[2] >= 160)
                       /\ (b = 237 => s[2] <= 159)
                       /\ Utf8Valid(SubSeq(s, 4, n))
             ELSE IF b \in 240..244
                  THEN /\ n >= 4 /\ IsCont(s[2]) /\ IsCont(s[3]) /\ IsCont(s[4])
                       /\ (b = 240 => s[2] >= 144)
                       /\ (b = 244 => s[2] <= 143)
                       /\ Utf8Valid(SubSeq(s, 5, n))
             ELSE FALSE

\* String::from_utf8 on a Vec<u8>.
FromUtf8(v) ==
    IF Utf8Valid(VecBytes(v)) THEN [ok |-> TRUE, string |-> VecBytes(v)]
    ELSE [ok |-> FALSE, string |-> <<>>]

\* ------------------------------------------------------- create_shader
\* What a call hands back: status Ok / Err / Panic (the assert_eq! failed),
\* the identifier of an Ok, the message of an Err; created is the name the
\* driver issued in the call (0: none), log the info log it held for it, and
\* at the exit the call was taking (for a Panic: the exit whose check failed).
Ret(status, id, msg, created, log) ==
    [status |-> status, at |-> status, id |-> id, msg |-> msg,
     created |-> created, log |-> log]

\* assert_eq!(gl::NO_ERROR, gl::GetError()); then r.
AssertNoError(g, r) ==
    LET e == glGetError(g)
    IN  [gl |-> e.gl,
         ret |-> IF e.value = NO_ERROR THEN r
                 ELSE [Ret("Panic", 0, <<"assertion failed">>, r.created, r.log)
                          EXCEPT !.at = r.status]]

\* The success exit: the consistency check, then Ok(id).
compile_ok(g, id) ==
    AssertNoError(g, Ret("Ok", id, <<>>, id, <<>>))

\* compile_failed that hands the Err back without a consistency check.
compile_failed_unchecked(g, id, stage) ==
    LET il == glGetShaderiv(g, id, "INFO_LOG_LENGTH")
        info_length == il.value
        log == g.objs[id].log
    IN  IF info_length = 0
        THEN [gl |-> glDeleteShader(il.gl, id),
              ret |-> Ret("Err", 0,
                          <<"Failed to compile ", stage,
                            ", no info log available.">>, id, log)]
        ELSE
        LET v0 == VecWithCapacity(info_length - 1)
            w == glGetShaderInfoLog(il.gl, id, info_length - 1)
            info_log == WriteRaw(v0, w.written)
            g3 == glDeleteShader(w.gl, id)
            parsed == FromUtf8(info_log)
        IN  [gl |-> g3,
             ret |-> IF parsed.ok
                     THEN Ret("Err", 0,
                              <<"Failed to compile ", stage, ": ",
                                parsed.string>>, id, log)
                     ELSE Ret("Err", 0,
                              <<"Failed to compile ", stage,
                                ", info log cannot be parsed to UTF-8.">>,
                              id, log)]

\* The failure exit: the three-way message from the info log, the object
\* deleted and the consistency check made before the Err is handed back.
compile_failed(g, id, stage) ==
    LET il == glGetShaderiv(g, id, "INFO_LOG_LENGTH")
        info_length == il.value
        log == g.objs[id].log
    IN  IF info_length = 0
        THEN AssertNoError(glDeleteShader(il.gl, id),
                Ret("Err", 0,
                    <<"Failed to compile ", stage, ", no info log available.">>,
                    id, log))
        ELSE
        LET v0 == VecWithCapacity(info_length - 1)
            w == glGetShaderInfoLog(il.gl, id, info_length - 1)
            info_log == WriteRaw(v0, w.written)
            g3 == glDeleteShader(w.gl, id)
            parsed == FromUtf8(info_log)
        IN  AssertNoError(g3,
                IF parsed.ok
                THEN Ret("Err", 0,
                         <<"Failed to compile ", stage, ": ", parsed.string>>,
                         id, log)
                ELSE Ret("Err", 0,
                         <<"Failed to compile ", stage,
                           ", info log cannot be parsed to UTF-8.">>,
                         id, log))

create_shader(g, source, stage, name, fault) ==
    LET g0 == glGetError(g).gl
        c == glCreateShader(g0, stage, name)
        id == c.id
    IN  IF id = 0
        THEN [gl |-> c.gl,
              ret |-> Ret("Err", 0, <<"OpenGL failed to create shader object">>,
                          0, <<>>)]
        ELSE
        LET g1 == glShaderSource(c.gl, id, source)
            g2 == glCompileShader(g1, id, fault)
            st == glGetShaderiv(g2, id, "COMPILE_STATUS")
        IN  IF st.value = 1
            THEN compile_ok(st.gl, id)
            ELSE compile_failed(st.gl, id, stage)

\* ----------------------------------------------------------- program calls
\* Active uniforms of a linked program: name -> location and type.  Two
\* interfaces a link can produce; together they hold one uniform of each of
\* the six shapes the setters upload.
Layouts == { "A", "B" }
Locations == 0..2

ActiveUniforms(layout) ==
    CASE layout = "A" -> { [name |-> "f1", loc |-> 0, type |-> "1f"],
                           [name |-> "i1", loc |-> 1, type |-> "1i"],
                           [name |-> "v2", loc |-> 2, type |-> "2f"] }
      [] layout = "B" -> { [name |-> "v3", loc |-> 0, type |-> "3f"],
                           [name |-> "v4", loc |-> 1, type |-> "4f"],
                           [name |-> "m4", loc |-> 2, type |-> "matrix4f"] }
      [] OTHER -> {}

\* What the linker can answer for compiled shaders: success with one of the
\* interfaces, or failure with one of the logs.
LinkVerdicts ==
    { [ok |-> TRUE, log |-> <<>>, layout |-> L] : L \in Layouts } \cup
    { [ok |-> FALSE, log |-> l, layout |-> "none"] : l \in DriverLogs }

ZeroVals == [l \in Locations |-> 0]

glCreateProgram(g, name) ==
    IF name = 0
    THEN [id |-> 0, gl |-> g]
    ELSE [id |-> name,
          gl |-> [g EXCEPT !.objs[name] =
                     [kind |-> "program", linked |-> FALSE, log |-> <<>>,
                      attached |-> {}, layout |-> "none", vals |-> ZeroVals,
                      delPending |-> FALSE]]]

glAttachShader(g, p, s) ==
    IF ~IsProgram(g, p) \/ ~IsShader(g, s) THEN RaiseError(g, INVALID_VALUE)
    ELSE IF s \in g.objs[p].attached THEN RaiseError(g, INVALID_OPERATION)
    ELSE [g EXCEPT !.objs[p].attached = @ \cup {s}]

\* A link needs compiled shaders; then the linker's verdict decides.
glLinkProgram(g, p, verdict, fault) ==
    IF ~IsProgram(g, p) THEN RaiseError(g, INVALID_VALUE)
    ELSE LET att == g.objs[p].attached
             able == att # {} /\ \A s \in att : g.objs[s].compiled
             ok == able /\ verdict.ok
             g1 == [g EXCEPT
                      !.objs[p].linked = ok,
                      !.objs[p].log = IF ok THEN <<>>
                                      ELSE IF able THEN verdict.log
                                      ELSE <<104, 105>>,
                      !.objs[p].layout = IF ok THEN verdict.layout ELSE "none",
                      !.objs[p].vals = ZeroVals]
         IN  IF fault THEN RaiseError(g1, OUT_OF_MEMORY) ELSE g1

\* A shader flagged for deletion goes when its last attachment goes.
ReleaseShader(g, s) ==
    IF IsShader(g, s) /\ g.objs[s].delPending /\ AttachedTo(g, s) = {}
    THEN [g EXCEPT !.objs[s] = NoObj]
    ELSE g

glDetachShader(g, p, s) ==
    IF ~IsProgram(g, p) \/ ~IsShader(g, s) THEN RaiseError(g, INVALID_VALUE)
    ELSE IF s \notin g.objs[p].attached THEN RaiseError(g, INVALID_OPERATION)
    ELSE ReleaseShader([g EXCEPT !.objs[p].attached = @ \ {s}], s)

glGetProgramiv(g, id, pname) ==
    IF ~IsProgram(g, id) THEN [value |-> 0, gl |-> RaiseError(g, INVALID_VALUE)]
    ELSE [value |-> IF pname = "LINK_STATUS"
                    THEN (IF g.objs[id].linked THEN 1 ELSE 0)
                    ELSE InfoLogLength(g.objs[id].log),
          gl |-> g]

glGetProgramInfoLog(g, id, bufSize) ==
    IF ~IsProgram(g, id) \/ bufSize < 0
    THEN [written |-> <<>>, gl |-> RaiseError(g, INVALID_VALUE)]
    ELSE [written |-> LogBytes(g.objs[id].log, bufSize), gl |-> g]

\* Removing a program object detaches its shaders.
RECURSIVE ReleaseAll(_, _)
ReleaseAll(g, ss) ==
    IF ss = {} THEN g
    ELSE LET s == CHOOSE x \in ss : TRUE
         IN  ReleaseAll(ReleaseShader(g, s), ss \ {s})

RemoveProgram(g, p) ==
    ReleaseAll([g EXCEPT !.objs[p] = NoObj], g.objs[p].attached)

\* The current program is only flagged; 0 is silently ignored.
glDeleteProgram(g, id) ==
    IF id = 0 THEN g
    ELSE IF IsProgram(g, id)
         THEN IF g.current = id
              THEN [g EXCEPT !.objs[id].delPending = TRUE]
              ELSE RemoveProgram(g, id)
    ELSE IF IsShader(g, id) THEN RaiseError(g, INVALID_OPERATION)
    ELSE RaiseError(g, INVALID_VALUE)

\* Binding another program (or none) lets go of a flagged current one.
glUseProgram(g, id) ==
    IF id # 0 /\ ~IsProgram(g, id) THEN
        RaiseError(g, IF IsShader(g, id) THEN INVALID_OPERATION ELSE INVALID_VALUE)
    ELSE IF id # 0 /\ ~g.objs[id].linked THEN RaiseError(g, INVALID_OPERATION)
    ELSE LET old == g.current
             g1 == [g EXCEPT !.current = id]
         IN  IF old # id /\ IsProgram(g, old) /\ g.objs[old].delPending
             THEN RemoveProgram(g1, old)
             ELSE g1

\* -1 when the name is no active uniform of the program.
glGetUniformLocation(g, p, name) ==
    IF ~IsProgram(g, p)
    THEN [value |-> -1,
          gl |-> RaiseError(g, IF IsShader(g, p) THEN INVALID_OPERATION
                               ELSE INVALID_VALUE)]
    ELSE IF ~g.objs[p].linked
    THEN [value |-> -1, gl |-> RaiseError(g, INVALID_OPERATION)]
    ELSE LET us == { u \in ActiveUniforms(g.objs[p].layout) : u.name = name }
         IN  [value |-> IF us = {} THEN -1 ELSE (CHOOSE u \in us : TRUE).loc,
              gl |-> g]

\* The error a glUniform* call of the given shape generates: it addresses
\* the current program, whichever program the location was looked up in.
UniformError(g, type, location) ==
    IF g.current = 0 THEN INVALID_OPERATION
    ELSE IF location = -1 THEN NO_ERROR
    ELSE IF \E u \in ActiveUniforms(g.objs[g.current].layout) :
                u.loc = location /\ u.type = type
    THEN NO_ERROR
    ELSE INVALID_OPERATION

glUniform(g, type, location, value) ==
    LET e == UniformError(g, type, location)
    IN  IF e # NO_ERROR THEN RaiseError(g, e)
        ELSE IF location = -1 THEN g
        ELSE [g EXCEPT !.objs[g.current].vals[location] = value]

\* -------------------------------------------------------- Program::new
\* geometry_shader: <<>> for None, <<id>> for Some(handle).
\* attach_link_detach that leaves the geometry shader attached.
attach_link_keep_geometry(g, id, vs, fs, gs, verdict, fault) ==
    LET a1 == glAttachShader(g, id, vs)
        a2 == glAttachShader(a1, id, fs)
        a3 == IF gs # <<>> THEN glAttachShader(a2, id, gs[1]) ELSE a2
        l == glLinkProgram(a3, id, verdict, fault)
        d1 == glDetachShader(l, id, vs)
    IN  glDetachShader(d1, id, fs)

\* Attach, link, and detach whatever the outcome.
attach_link_detach(g, id, vs, fs, gs, verdict, fault) ==
    LET a1 == glAttachShader(g, id, vs)
        a2 == glAttachShader(a1, id, fs)
        a3 == IF gs # <<>> THEN glAttachShader(a2, id, gs[1]) ELSE a2
        l == glLinkProgram(a3, id, verdict, fault)
        d1 == glDetachShader(l, id, vs)
        d2 == glDetachShader(d1, id, fs)
    IN  IF gs # <<>> THEN glDetachShader(d2, id, gs[1]) ELSE d2

\* link_ok with a release that runs on every exit, the success one too.
link_ok_released(g, id) ==
    AssertNoError(glDeleteProgram(g, id), Ret("Ok", id, <<>>, id, <<>>))

\* The success exit: the consistency check, then Ok(Program { id }).
link_ok(g, id) ==
    AssertNoError(g, Ret("Ok", id, <<>>, id, <<>>))

\* link_failed that forgets the object on the no-log path.
link_failed_leak(g, id) ==
    LET il == glGetProgramiv(g, id, "INFO_LOG_LENGTH")
        info_length == il.value
        log == g.objs[id].log
    IN  IF info_length = 0
        THEN AssertNoError(il.gl,
                Ret("Err", 0,
                    <<"Failed to link program, no info log available.">>,
                    id, log))
        ELSE
        LET v0 == VecWithCapacity(info_length - 1)
            w == glGetProgramInfoLog(il.gl, id, info_length - 1)
            info_log == WriteRaw(v0, w.written)
            g3 == glDeleteProgram(w.gl, id)
            parsed == FromUtf8(info_log)
        IN  AssertNoError(g3,
                IF parsed.ok
                THEN Ret("Err", 0,
                         <<"Failed to link program: ", parsed.string>>, id, log)
                ELSE Ret("Err", 0,
                         <<"Failed to link program, info log cannot be parsed to UTF-8.">>,
                         id, log))

\* The failure exit, as compile_failed.
link_failed(g, id) ==
    LET il == glGetProgramiv(g, id, "INFO_LOG_LENGTH")
        info_length == il.value
        log == g.objs[id].log
    IN  IF info_length = 0
        THEN AssertNoError(glDeleteProgram(il.gl, id),
                Ret("Err", 0,
                    <<"Failed to link program, no info log available.">>,
                    id, log))
        ELSE
        LET v0 == VecWithCapacity(info_length - 1)
            w == glGetProgramInfoLog(il.gl, id, info_length - 1)
            info_log == WriteRaw(v0, w.written)
            g3 == glDeleteProgram(w.gl, id)
            parsed == FromUtf8(info_log)
        IN  AssertNoError(g3,
                IF parsed.ok
                THEN Ret("Err", 0,
                         <<"Failed to link program: ", parsed.string>>, id, log)
                ELSE Ret("Err", 0,
                         <<"Failed to link program, info log cannot be parsed to UTF-8.">>,
                         id, log))

Program_new(g, vs, fs, gs, name, verdict, fault) ==
    LET g0 == glGetError(g).gl
        c == glCreateProgram(g0, name)
        id == c.id
    IN  IF id = 0
        THEN [gl |-> c.gl,
              ret |-> Ret("Err", 0, <<"OpenGL failed to create program object.">>,
                          0, <<>>)]
        ELSE
        LET d == attach_link_detach(c.gl, id, vs, fs, gs, verdict, fault)
            st == glGetProgramiv(d, id, "LINK_STATUS")
        IN  IF st.value = 1
            THEN link_ok(st.gl, id)
            ELSE link_failed(st.gl, id)

\* ----------------------------------------------------- uniform setters
\* get_location without the sentinel check: Ok(location) always.
get_location_unchecked(g, id, name) ==
    LET l == glGetUniformLocation(g, id, name)
    IN  [gl |-> l.gl, location |-> l.value, err |-> <<>>]

\* Program::get_location: Err on the -1 sentinel.
get_location(g, id, name) ==
    LET l == glGetUniformLocation(g, id, name)
    IN  [gl |-> l.gl, location |-> l.value,
         err |-> IF l.value = -1 THEN <<"Invalid uniform name: ", name>> ELSE <<>>]

\* The bracket without its first GetError: the flag is taken to be clean.
checked_upload_noclear(g, type, location, value) ==
    LET g1 == glUniform(g, type, location, value)
        e1 == glGetError(g1)
    IN  [gl |-> e1.gl,
         ret |-> [status |-> IF e1.value = NO_ERROR THEN "Ok" ELSE "Err",
                  msg |-> IF e1.value = NO_ERROR THEN <<>>
                          ELSE <<"Invalid uniform value: ", value>>,
                  location |-> location, uploaded |-> TRUE,
                  pending |-> g.err]]

\* The bracket around the upload: GetError, the glUniform* call of the
\* given shape, GetError.  Besides the Result, the record notes what
\* happened inside the call: the location, whether the upload call was
\* made, and the flag its first GetError found (pending).
checked_upload(g, type, location, value) ==
    LET e0 == glGetError(g)
        g1 == glUniform(e0.gl, type, location, value)
        e1 == glGetError(g1)
    IN  [gl |-> e1.gl,
         ret |-> [status |-> IF e1.value = NO_ERROR THEN "Ok" ELSE "Err",
                  msg |-> IF e1.value = NO_ERROR THEN <<>>
                          ELSE <<"Invalid uniform value: ", value>>,
                  location |-> location, uploaded |-> TRUE,
                  pending |-> e0.value]]

\* The body the six setters share: `?` on get_location, then the bracket.
Setter(g, id, type, name, value) ==
    LET l == get_location(g, id, name)
    IN  IF l.err # <<>>
        THEN [gl |-> l.gl,
              ret |-> [status |-> "Err", msg |-> l.err, location |-> l.location,
                       uploaded |-> FALSE, pending |-> l.gl.err]]
        ELSE checked_upload(l.gl, type, l.location, value)

set_1f(g, id, name, value) == Setter(g, id, "1f", name, value)
set_1i(g, id, name, value) == Setter(g, id, "1i", name, value)
set_2f(g, id, name, value) == Setter(g, id, "2f", name, value)
set_3f(g, id, name, value) == Setter(g, id, "3f", name, value)
set_4f(g, id, name, value) == Setter(g, id, "4f", name, value)
set_matrix4f(g, id, name, value) == Setter(g, id, "matrix4f", name, value)

\* ------------------------------------------------------------------ state
VARIABLES
    gl,         \* the driver
    shaders,    \* live shader handles: [stage, id, k] (k tells copies apart)
    programs,   \* live Program values: [id]
    result,     \* what the last call handed back
    panicked    \* an assert_eq! failed: the process is gone

vars == <<gl, shaders, programs, result, panicked>>

NoResult == [op |-> "none"]

Init ==
    /\ gl = [objs |-> [n \in Names |-> NoObj], err |-> NO_ERROR, current |-> 0]
    /\ shaders = {}
    /\ programs = {}
    /\ result = NoResult
    /\ panicked = FALSE

\* The least copy index not in use for (stage, id).
FreshCopy(stage, id) ==
    CHOOSE k \in 1..(MaxShaders + 1) :
        /\ [stage |-> stage, id |-> id, k |-> k] \notin shaders
        /\ \A j \in 1..(k - 1) : [stage |-> stage, id |-> id, k |-> j] \in shaders

\* <Stage>Shader::from_cstr: Ok(id) => Ok(XShader { id }), Err => Err.
from_cstr(stage, source, name, fault) ==
    /\ ~panicked
    /\ Cardinality(shaders) < MaxShaders
    /\ LET r == create_shader(gl, source, stage, name, fault)
       IN  /\ gl' = r.gl
           /\ shaders' = IF r.ret.status = "Ok"
                         THEN shaders \cup
                              {[stage |-> stage, id |-> r.ret.id,
                                k |-> FreshCopy(stage, r.ret.id)]}
                         ELSE shaders
           /\ result' = [op |-> "from_cstr", stage |-> stage, fault |-> fault]
                        @@ r.ret
           /\ panicked' = (r.ret.status = "Panic")
           /\ UNCHANGED programs

\* Drop for <Stage>Shader: gl::DeleteShader(self.id).
drop_shader(h) ==
    /\ ~panicked
    /\ gl' = glDeleteShader(gl, h.id)
    /\ shaders' = shaders \ {h}
    /\ result' = [op |-> "drop_shader", id |-> h.id]
    /\ UNCHANGED <<programs, panicked>>

\* Program::new(&vertex_shader, &fragment_shader, Option<&geometry_shader>):
\* geo is <<>> for None and <<handle>> for Some.
new(v, f, geo, name, verdict, fault) ==
    /\ ~panicked
    /\ Cardinality(programs) < MaxPrograms
    /\ LET gs == [i \in DOMAIN geo |-> geo[i].id]
           r == Program_new(gl, v.id, f.id, gs, name, verdict, fault)
       IN  /\ gl' = r.gl
           /\ programs' = IF r.ret.status = "Ok"
                          THEN programs \cup {[id |-> r.ret.id]}
                          ELSE programs
           /\ result' = [op |-> "Program::new", args |-> <<v.id, f.id, gs>>,
                         fault |-> fault] @@ r.ret
           /\ panicked' = (r.ret.status = "Panic")
           /\ UNCHANGED shaders

\* A Program that goes away without its delete call.
drop_program_forget(p) ==
    /\ ~panicked
    /\ gl' = gl
    /\ programs' = programs \ {p}
    /\ result' = [op |-> "drop_program", id |-> p.id]
    /\ UNCHANGED <<shaders, panicked>>

\* Drop for Program: gl::DeleteProgram(self.id).
drop_program(p) ==
    /\ ~panicked
    /\ gl' = glDeleteProgram(gl, p.id)
    /\ programs' = programs \ {p}
    /\ result' = [op |-> "drop_program", id |-> p.id]
    /\ UNCHANGED <<shaders, panicked>>

use_program(p) ==
    /\ ~panicked
    /\ gl' = glUseProgram(gl, p.id)
    /\ result' = [op |-> "use_program", id |-> p.id]
    /\ UNCHANGED <<shaders, programs, panicked>>

unset_program ==
    /\ ~panicked
    /\ gl' = glUseProgram(gl, 0)
    /\ result' = [op |-> "unset_program"]
    /\ UNCHANGED <<shaders, programs, panicked>>

\* The collaborator's own driver calls (buffers, textures, drawing) check no
\* error: one of them may leave the flag set.
external_gl ==
    /\ ~panicked
    /\ gl.err = NO_ERROR
    /\ gl' = RaiseError(gl, INVALID_OPERATION)
    /\ result' = [op |-> "external"]
    /\ UNCHANGED <<shaders, programs, panicked>>

\* <Stage>Shader::from_id(id): wraps the identifier, no driver call.  The
\* identifier is one a live handle's get_id hands out, and the caller keeps
\* the documented contract: it names a compiled shader of the handle's stage.
get_id(h) == h.id

from_id(stage, id) ==
    /\ ~panicked
    /\ Cardinality(shaders) < MaxShaders
    /\ IsShader(gl, id) /\ gl.objs[id].stage = stage /\ gl.objs[id].compiled
    /\ shaders' = shaders \cup
                  {[stage |-> stage, id |-> id, k |-> FreshCopy(stage, id)]}
    /\ result' = [op |-> "from_id", id |-> id]
    /\ UNCHANGED <<gl, programs, panicked>>

\* A setter call on a live Program.
call_setter(op, p, name, value) ==
    /\ ~panicked
    /\ LET r == CASE op = "set_1f" -> set_1f(gl, p.id, name, value)
                  [] op = "set_1i" -> set_1i(gl, p.id, name, value)
                  [] op = "set_2f" -> set_2f(gl, p.id, name, value)
                  [] op = "set_3f" -> set_3f(gl, p.id, name, value)
                  [] op = "set_4f" -> set_4f(gl, p.id, name, value)
                  [] OTHER -> set_matrix4f(gl, p.id, name, value)
       IN  /\ gl' = r.gl
           /\ result' = [op |-> op, prog |-> p.id, name |-> name,
                         value |-> value] @@ r.ret
    /\ UNCHANGED <<shaders, programs, panicked>>

HandlesOf(stage) == { h \in shaders : h.stage = stage }

\* ------------------------------------------------------------------ inputs
\* The stages Program::new takes; the two tessellation stages run the same
\* create_shader and are exercised in SpecShader.
LinkStages == { "VERTEX_SHADER", "FRAGMENT_SHADER", "GEOMETRY_SHADER" }
LifeSources == { "valid", "bad_nolog", "bad_ascii", "bad_bytes" }
LifeVerdicts == { x \in LinkVerdicts : x.layout # "B" /\ x.log # <<195, 169>> }
\* A driver error during the call is drawn for a call that creates an object
\* (a call that gets no name makes no further driver call) and for one
\* outcome of each exit: success, failure without a log, failure with one.
FaultAt(name, log) == name # 0 /\ log \in { <<>>, <<104, 105>> }

ShaderSources == { "valid", "bad_latin" }

SetterOps == { "set_1f", "set_1i", "set_2f", "set_3f", "set_4f", "set_matrix4f" }
UniformValues == { 1 }
\* Per setter: the name of a uniform of its shape, the name of a uniform of
\* another shape in the same interface, and a name no program has.
SetterNames(op) ==
    CASE op = "set_1f" -> { "f1", "i1", "nope" }
      [] op = "set_1i" -> { "i1", "v2", "nope" }
      [] op = "set_2f" -> { "v2", "f1", "nope" }
      [] op = "set_3f" -> { "v3", "v4", "nope" }
      [] op = "set_4f" -> { "v4", "m4", "nope" }
      [] OTHER -> { "m4", "v3", "nope" }

\* ------------------------------------------------- Spec: object lifecycle
Next ==
    \/ \E stage \in LinkStages, source \in LifeSources, name \in Issuable(gl),
          fault \in BOOLEAN :
              /\ fault => FaultAt(name, CompileOutcome(source).log)
              /\ from_cstr(stage, source, name, fault)
    \/ \E h \in shaders : drop_shader(h)
    \/ \E v \in HandlesOf("VERTEX_SHADER"), f \in HandlesOf("FRAGMENT_SHADER"),
          geo \in {<<>>} \cup { <<h>> : h \in HandlesOf("GEOMETRY_SHADER") },
          name \in Issuable(gl), verdict \in LifeVerdicts, fault \in BOOLEAN :
              /\ fault => FaultAt(name, verdict.log)
              /\ new(v, f, geo, name, verdict, fault)
    \/ \E p \in programs : drop_program(p)
    \/ \E p \in programs : use_program(p)
    \/ unset_program
    \/ external_gl

Spec == Init /\ [][Next]_vars

\* ------------------------------- SpecShader: the five handles and from_id
NextShader ==
    \/ \E stage \in Stages, source \in ShaderSources, name \in Issuable(gl),
          fault \in BOOLEAN :
              /\ fault => FaultAt(name, CompileOutcome(source).log)
              /\ from_cstr(stage, source, name, fault)
    \/ \E h \in shaders : from_id(h.stage, get_id(h))
    \/ \E h \in shaders : drop_shader(h)

SpecShader == Init /\ [][NextShader]_vars

\* ------------------------------------ SpecUniform: two linked programs
\* The state after two shaders were compiled (names 1 and 2), two programs
\* linked from them (names 3 and 4) and the shaders dropped.
LinkedProgram(layout) ==
    [kind |-> "program", linked |-> TRUE, log |-> <<>>, attached |-> {},
     layout |-> layout, vals |-> ZeroVals, delPending |-> FALSE]

InitUniform ==
    /\ \E lq \in Layouts :
          gl = [objs |-> [n \in Names |->
                            IF n = 3 THEN LinkedProgram("A")
                            ELSE IF n = 4 THEN LinkedProgram(lq)
                            ELSE NoObj],
                err |-> NO_ERROR, current |-> 0]
    /\ shaders = {}
    /\ programs = { [id |-> 3], [id |-> 4] }
    /\ result = NoResult
    /\ panicked = FALSE

NextUniform ==
    \/ \E op \in SetterOps, p \in programs, value \in UniformValues :
          \E name \in SetterNames(op) : call_setter(op, p, name, value)
    \/ \E p \in programs : use_program(p)
    \/ unset_program
    \/ external_gl
    \/ \E p \in programs : drop_program(p)

SpecUniform == InitUniform /\ [][NextUniform]_vars
\* ===================================================================
\* Properties
\* ===================================================================
Constructors == { "from_cstr", "Program::new" }
ShaderIds == { h.id : h \in shaders }
ProgramIds == { p.id : p \in programs }

\* C1: a from_cstr or Program::new call that returns Err after the driver
\* issued a name has deleted that object: the driver's live objects are
\* those of before the call.
C1_ErrLeavesNoObject ==
    [][ (/\ result'.op \in Constructors
         /\ result'.status = "Err"
         /\ result'.created # 0)
        => (/\ Live(gl') = Live(gl)
            /\ result'.created \notin Live(gl')) ]_vars

\* A link with a geometry shader failed with a log and returned Err.
C1_Witness ==
    /\ result.op = "Program::new"
    /\ result.status = "Err"
    /\ result.created # 0
    /\ result.log # <<>>
    /\ result.args[3] # <<>>

\* C2: every live Program holds the name of an existing, successfully
\* linked program object; Program::new yields a Program exactly on Ok, and
\* Ok only for a linked object.
C2_LiveProgramsLinked ==
    /\ \A p \in programs : IsProgram(gl, p.id) /\ gl.objs[p.id].linked
    /\ result.op = "Program::new" =>
          /\ result.status = "Ok" =>
                /\ [id |-> result.id] \in programs
                /\ result.id # 0
          /\ result.status # "Ok" => result.created \notin ProgramIds

\* A failed link (object created and rejected) beside a live Program.
C2_Witness ==
    /\ result.op = "Program::new"
    /\ result.status = "Err"
    /\ result.created # 0
    /\ programs # {}

\* C3: when Program::new returns after creating a program object, each
\* shader it was given is attached to no program, is still a compiled
\* driver object and is still owned by a live handle; no program of a live
\* Program has a shader attached.
PassedShaders(r) == { r.args[1], r.args[2] } \cup { r.args[3][i] : i \in DOMAIN r.args[3] }

C3_ShadersDetachedAndAlive ==
    /\ \A p \in programs : IsProgram(gl, p.id) => gl.objs[p.id].attached = {}
    /\ (/\ result.op = "Program::new"
        /\ result.status \in {"Ok", "Err"}
        /\ result.created # 0)
       => \A s \in PassedShaders(result) :
             /\ IsShader(gl, s)
             /\ gl.objs[s].compiled
             /\ ~gl.objs[s].delPending
             /\ AttachedTo(gl, s) = {}
             /\ s \in ShaderIds

\* A second Program was linked while the first is alive and the two shaders
\* of the call are the only shader objects there are: both programs came
\* from the same pair, which is still alive, compiled and unattached.
C3_Witness ==
    /\ result.op = "Program::new"
    /\ result.status = "Ok"
    /\ Cardinality(programs) = 2
    /\ ShaderIds = PassedShaders(result)
    /\ \A s \in ShaderIds : IsShader(gl, s) /\ AttachedTo(gl, s) = {}

\* C4: the message of a failed compile or link follows the info log: no
\* log gives the "no info log available" message, a log that is UTF-8 a
\* message ending in the log's text, any other log the "cannot be parsed
\* to UTF-8" message.
Last(m) == m[Len(m)]

C4_ThreeWayMessage ==
    (/\ result.op \in Constructors
     /\ result.status = "Err"
     /\ result.created # 0)
    => /\ InfoLogLength(result.log) = 0 =>
             Last(result.msg) \in { ", no info log available.",
                                    "Failed to link program, no info log available." }
       /\ (InfoLogLength(result.log) # 0 /\ Utf8Valid(result.log)) =>
             Last(result.msg) = result.log
       /\ (InfoLogLength(result.log) # 0 /\ ~Utf8Valid(result.log)) =>
             Last(result.msg) \in
                { ", info log cannot be parsed to UTF-8.",
                  "Failed to link program, info log cannot be parsed to UTF-8." }

\* C5: a drop's delete call names an existing object of the handle's kind
\* that no other handle owns, and removes exactly it (a program that is
\* current stays, flagged, until it is unbound); in every state that no
\* assertion ended, the driver's live objects are those owned by live
\* handles, so that nothing is left once every handle is dropped.
FlaggedCurrent(g) ==
    IF IsProgram(g, g.current) /\ g.objs[g.current].delPending
    THEN {g.current} ELSE {}

C5_DropDeletesOnce ==
    [][ /\ result'.op = "drop_shader" =>
              /\ IsShader(gl, result'.id)
              /\ result'.id \notin ShaderIds'
              /\ Live(gl') = Live(gl) \ {result'.id}
        /\ result'.op = "drop_program" =>
              /\ IsProgram(gl, result'.id)
              /\ ~gl.objs[result'.id].delPending
              /\ result'.id \notin ProgramIds'
              /\ Live(gl') = Live(gl) \ ({result'.id} \ {gl.current})
        /\ ~panicked' =>
              Live(gl') = ShaderIds' \cup ProgramIds' \cup FlaggedCurrent(gl') ]_vars

\* The last handle of a run that created several was dropped: the driver
\* holds no object.
C5_Witness ==
    /\ result.op = "drop_program"
    /\ shaders = {}
    /\ programs = {}
    /\ Live(gl) = {}
    /\ gl.current = 0
\* C6: no two live shader handles hold the same identifier, whichever
\* public constructor made them.
C6_UniqueOwner ==
    \A h1 \in shaders, h2 \in shaders : h1 # h2 => h1.id # h2.id

\* The name is an active uniform of the program the setter is called on.
Resolves(g, p, name) ==
    /\ IsProgram(g, p)
    /\ \E u \in ActiveUniforms(g.objs[p].layout) : u.name = name

SetterType(op) ==
    CASE op = "set_1f" -> "1f"
      [] op = "set_1i" -> "1i"
      [] op = "set_2f" -> "2f"
      [] op = "set_3f" -> "3f"
      [] op = "set_4f" -> "4f"
      [] OTHER -> "matrix4f"

\* C7: a setter called with a name that is no active uniform of its
\* program returns the "Invalid uniform name" error, makes no upload call
\* and leaves the driver (uniform values, error flag) as it was, whether or
\* not the upload would have been rejected.
C7_InvalidNameNoUpload ==
    [][ (/\ result'.op \in SetterOps
         /\ ~Resolves(gl, result'.prog, result'.name))
        => (/\ result'.status = "Err"
            /\ result'.msg = <<"Invalid uniform name: ", result'.name>>
            /\ result'.location = -1
            /\ ~result'.uploaded
            /\ gl' = gl) ]_vars

\* An unknown name, with an error pending and no program bound (an upload
\* would have been rejected): the flag is still set.
C7_Witness ==
    /\ result.op \in SetterOps
    /\ result.status = "Err"
    /\ result.location = -1
    /\ gl.err # NO_ERROR
    /\ gl.current = 0

\* C8: a setter whose name resolves returns Ok exactly when its upload call
\* generated no error and the "Invalid uniform value" error exactly when it
\* did, whatever the flag held on entry, and leaves the flag clean.
C8_ResultFollowsUpload ==
    [][ (/\ result'.op \in SetterOps
         /\ Resolves(gl, result'.prog, result'.name))
        => LET e == UniformError(gl, SetterType(result'.op), result'.location)
           IN  /\ result'.uploaded
               /\ result'.location # -1
               /\ result'.status = "Ok" <=> e = NO_ERROR
               /\ result'.status = "Err" <=> e # NO_ERROR
               /\ result'.status = "Err" =>
                     result'.msg = <<"Invalid uniform value: ", result'.value>>
               /\ gl'.err = NO_ERROR ]_vars

\* A setter that found an error pending on entry and returned Ok.
C8_Witness ==
    /\ result.op \in SetterOps
    /\ result.status = "Ok"
    /\ result.pending # NO_ERROR
    /\ gl.err = NO_ERROR

\* C9 as claimed: a failed compile or link returns Err and never aborts;
\* only the check after a successful compile or link aborts.
C9_AbortOnlyAfterSuccess ==
    (result.op \in Constructors /\ result.at = "Err") => result.status = "Err"

\* C9 as the code has it: every exit taken after the driver issued a name
\* passes a consistency check, the two failure exits too (after the object
\* was deleted).  A call aborts exactly when the driver recorded an error
\* during it; an error pending on entry never aborts it, and a creation
\* failure always returns Err.
C9_AbortOnlyAtChecks ==
    [][ result'.op \in Constructors =>
          /\ result'.status = "Panic" <=> (result'.created # 0 /\ result'.fault)
          /\ result'.created = 0 =>
                (result'.status = "Err" /\ Live(gl') = Live(gl))
          /\ (result'.status = "Panic" /\ result'.at = "Err") =>
                result'.created \notin Live(gl') ]_vars

\* A failed compile whose Err was replaced by an abort, the rejected
\* shader deleted before it.
C9_Witness ==
    /\ result.op = "from_cstr"
    /\ result.status = "Panic"
    /\ result.at = "Err"
    /\ result.fault
    /\ result.created \notin Live(gl)

\* C10: on every exit of a constructor (Ok, Err, abort) the object the call
\* created is owned by the handle handed back or has been deleted.
C10_NoOrphanOnExit ==
    (result.op \in Constructors /\ result.created # 0)
    => (result.created \in Live(gl)
        => result.created \in ShaderIds \cup ProgramIds)

\* C11: a setter called on Program P that returns Ok has set the named
\* uniform of P to the value, has left every uniform of every other program
\* as it was and has left the current-program binding as it was, whichever
\* program (or none) is current.
C11_SetterWritesOwnProgram ==
    [][ (result'.op \in SetterOps /\ result'.status = "Ok")
        => LET P == result'.prog
           IN  /\ gl'.current = gl.current
               /\ gl'.objs[P].vals[result'.location] = result'.value
               /\ \A q \in Names \ {P} :
                     IsProgram(gl, q) => gl'.objs[q] = gl.objs[q] ]_vars
====
